---- MODULE Spec2Model ----
(***************************************************************************)
(* The status-classification-and-submission pipeline of                    *)
(* google-indexing-script (src/src/index.ts): a run resolves the site,     *)
(* enumerates its URLs, checks their indexing status in batches against a  *)
(* cache, saves the cache, and submits the URLs that are Pending.  The     *)
(* cache file and the indexing service persist from one run to the next.   *)
(***************************************************************************)
EXTENDS Integers, Sequences, FiniteSets, TLC

\* ------------------------------------------------------------ bounds

\* URLs are 1..NumUrls (stand-ins for "https://..." strings).  The site of
\* the cold-start specification has all of them, the site of the
\* specification of several runs has all but the last.
NumUrls == 3
\* The longest URL list an enumeration yields (a list may repeat a URL).
MaxUrls == 3
\* getPageIndexingStatus answers with one of the first NumReplies statuses
\* of StatusOrder.
NumReplies == 3
\* Runs of the program, one after the other, on the same cache file.
MaxRuns == 2
\* Clock advances.
MaxTicks == 2
\* The batch size index() passes to batch() is 50 (index.ts:148); the model
\* runs the same pipeline with this smaller batch size.
BatchSize == 2

\* ------------------------------------------------------- program constants

\* index.ts:18
CACHE_TIMEOUT == 1000 * 60 * 60 * 24 * 14
\* index.ts:21, QUOTA.rpm.retries
QUOTA_rpm_retries == 3

MsPerDay == 1000 * 60 * 60 * 24

URLS == 1..NumUrls

\* part_000:4-14
IndexingStatus ==
  { "SubmittedAndIndexed", "DuplicateWithoutUserSelectedCanonical",
    "CrawledCurrentlyNotIndexed", "DiscoveredCurrentlyNotIndexed",
    "PageWithRedirect", "URLIsUnknownToGoogle", "RateLimited", "Forbidden",
    "Error" }

\* part_000:19-24
PageStatus == { "Pending", "Processing", "Completed", "Failed" }

\* index.ts:112-118
indexableStatuses ==
  { "DiscoveredCurrentlyNotIndexed", "CrawledCurrentlyNotIndexed",
    "URLIsUnknownToGoogle", "Forbidden", "Error" }

\* ------------------------------------------------------- dates

\* Date.prototype.toISOString: the calendar day and the time of day, to the
\* millisecond.
toISOString(t) == [day |-> t \div MsPerDay, ms |-> t % MsPerDay]

\* new Date(isoString), as the number of milliseconds it compares by.
DateOf(s) == s.day * MsPerDay + s.ms

\* ------------------------------------------------------- Record<string, Page>

\* A JavaScript object with string keys: its entries in insertion order.
Has(rec, u) == \E i \in 1..Len(rec) : rec[i].url = u
Get(rec, u) == rec[CHOOSE i \in 1..Len(rec) : rec[i].url = u].page
\* An assignment that adds an entry even when the key is there.
Put_append(rec, u, p) == Append(rec, [url |-> u, page |-> p])

Put(rec, u, p) ==
  IF Has(rec, u)
  THEN [i \in 1..Len(rec) |-> IF rec[i].url = u THEN [url |-> u, page |-> p] ELSE rec[i]]
  ELSE Append(rec, [url |-> u, page |-> p])
Keys(rec) == [i \in 1..Len(rec) |-> rec[i].url]

Range(s) == { s[i] : i \in 1..Len(s) }

\* JSON.stringify(pages, null, 2): one line group per key, in key order.
JSON_stringify(rec) ==
  [i \in 1..Len(rec) |->
     << rec[i].url, rec[i].page.indexingStatus, rec[i].page.status,
        rec[i].page.lastCheckedAt >>]

\* JSON.parse of a file JSON.stringify wrote.
JSON_parse(text) ==
  [i \in 1..Len(text) |->
     [url |-> text[i][1],
      page |-> [indexingStatus |-> text[i][2], status |-> text[i][3],
                lastCheckedAt |-> text[i][4]]]]

\* ------------------------------------------------------- pure functions

\* classify with the RateLimited branch left out.
classify_noFailed(indexingStatus) ==
  IF indexingStatus \in indexableStatuses THEN "Pending" ELSE "Completed"

\* index.ts:133-137
classify(indexingStatus) ==
  IF indexingStatus \in indexableStatuses THEN "Pending"
  ELSE IF indexingStatus = "RateLimited" THEN "Failed"
  ELSE "Completed"

\* shouldRecheck by age alone.
shouldRecheck_ageOnly(page, t) ==
  DateOf(page.lastCheckedAt) < t - CACHE_TIMEOUT

\* shouldRecheck with the boundary on the other side.
shouldRecheck_closed(page, t) ==
  DateOf(page.lastCheckedAt) <= t - CACHE_TIMEOUT \/ page.status = "Failed"

\* index.ts:120-124; t is Date.now()
shouldRecheck(page, t) ==
  LET isFailed == page.status = "Failed"
      isOld == DateOf(page.lastCheckedAt) < t - CACHE_TIMEOUT
  IN  isOld \/ isFailed

\* shouldBeSubmitted as "not Completed".
shouldBeSubmitted_notCompleted(page) == page.status # "Completed"

\* index.ts:166-168
shouldBeSubmitted(page) == page.status = "Pending"

\* The retry budget handed over whatever the option says.
retriesOnRateLimit_always(rpmRetryOpt) == QUOTA_rpm_retries

\* index.ts:183
retriesOnRateLimit(rpmRetryOpt) == IF rpmRetryOpt THEN QUOTA_rpm_retries ELSE 0

\* Any error status taken for "not found".
isNotFound_anyError(status) == status >= 400

\* index.ts:185
isNotFound(status) == status = 404

\* The loop staying on the same URL.
afterUrl_stay(i, status) == i

\* The loop given up at the first failure status.
afterUrl_abortOnFailure(i, status) ==
  IF status >= 400 /\ status # 404 THEN MaxUrls + 1 ELSE i + 1

\* index.ts:180, 192: for (const url of queue); whatever the status, the
\* loop goes on to the next URL of the queue
afterUrl(i, status) == i + 1

\* index.ts:185-190: what the loop does with the status of the query
Outcome(status) ==
  IF isNotFound(status) THEN "NewlySubmitted"
  ELSE IF status < 400 THEN "AlreadyRequested"
  ELSE "PermanentFailure"

\* ------------------------------------------------------- batch (shared/utils)

\* The chunks of a list of n items: ceil(n / size) of them.
chunkCount(n, size) == (n + size - 1) \div size

\* The item indexes (1-based) of chunk k (0-based), in order.
chunkItems(n, size, k) ==
  LET first == k * size + 1
      last == IF (k + 1) * size < n THEN (k + 1) * size ELSE n
  IN  [j \in 1..(last - first + 1) |-> first + j - 1]

\* ------------------------------------------------------- external services

\* The statuses in the order the model lets getPageIndexingStatus use them:
\* one that classifies as Pending, one as Completed, one as Failed, then
\* the others.
StatusOrder ==
  << "DiscoveredCurrentlyNotIndexed", "SubmittedAndIndexed", "RateLimited",
     "CrawledCurrentlyNotIndexed", "PageWithRedirect", "URLIsUnknownToGoogle",
     "DuplicateWithoutUserSelectedCanonical", "Forbidden", "Error" >>

\* What getPageIndexingStatus may return.
StatusReplies ==
  { StatusOrder[k] : k \in 1..(IF NumReplies < 9 THEN NumReplies ELSE 9) }

\* The HTTP status of one publish-metadata request for url: rate-limited,
\* forbidden, or the answer (200 when a submission exists, 404 when none).
MetadataReplies(pub, u) == { 429, 403, IF u \in pub THEN 200 ELSE 404 }

\* The URL lists over the URLs in S.
UrlLists(S) == UNION { [1..n -> S] : n \in 0..MaxUrls }

\* shared/gsc checkCustomUrls: the URLs of the list that pass, in order;
\* keep is the set of positions that pass.
RECURSIVE checkCustomUrls(_, _, _)
checkCustomUrls(custom, keep, j) ==
  IF j > Len(custom) THEN << >>
  ELSE (IF j \in keep THEN << custom[j] >> ELSE << >>)
       \o checkCustomUrls(custom, keep, j + 1)

\* ------------------------------------------------------- options

\* A value that is not there: a field never set, a flag not on the command
\* line, an environment variable not set.
Undefined == "undefined"

\* index.ts:49-57: a credential option; the call-site value when it is
\* truthy, else args[flag] || process.env[variable]
resolveString(callSite, flag, variable) ==
  IF callSite # Undefined THEN callSite
  ELSE IF flag # Undefined THEN flag
  ELSE variable

\* String.prototype.split(","): the text is a sequence of items, 0 standing
\* for a comma; the pieces between the commas.
RECURSIVE split(_, _)
split(text, j) ==
  IF j > Len(text) THEN << >>
  ELSE IF text[j] = 0 THEN split(text, j + 1)
  ELSE << text[j] >> \o split(text, j + 1)

\* index.ts:58-60: options.urls; set says whether the value is there
resolveUrls(callSite, flag) ==
  IF callSite.set THEN callSite
  ELSE IF flag.set THEN [set |-> TRUE, list |-> split(flag.text, 1)]
  ELSE [set |-> FALSE, list |-> << >>]

\* index.ts:61-65: options.quota
resolveQuota(callSite, flag, variable) ==
  IF callSite.set THEN callSite
  ELSE [set |-> TRUE,
        rpmRetry |-> IF flag = "true" \/ variable = "true" THEN "true" ELSE "false"]

\* The values of a credential option, by the source that gives them.
CallSiteStrings == { Undefined, "call" }
FlagStrings == { Undefined, "flag" }
VariableStrings == { Undefined, "env" }
\* A boolean option as text.
BoolStrings == { Undefined, "true", "false" }

\* options as the caller passes it (IndexOptions, index.ts:26-34)
CallSiteOptions ==
  [client_email : CallSiteStrings, private_key : CallSiteStrings,
   path : CallSiteStrings,
   urls : { [set |-> FALSE, list |-> << >>], [set |-> TRUE, list |-> << 1 >>] },
   quota : { [set |-> FALSE, rpmRetry |-> Undefined] }
           \cup [set : { TRUE }, rpmRetry : BoolStrings]]

\* parseCommandLineArgs(process.argv.slice(2)), index.ts:48
CommandLines ==
  [client_email : FlagStrings, private_key : FlagStrings, path : FlagStrings,
   urls : { [set |-> FALSE, text |-> << >>], [set |-> TRUE, text |-> << 1, 0, 2 >>] },
   rpm_retry : BoolStrings]

\* process.env
Environments ==
  [GIS_CLIENT_EMAIL : VariableStrings, GIS_PRIVATE_KEY : VariableStrings,
   GIS_PATH : VariableStrings, GIS_QUOTA_RPM_RETRY : BoolStrings]

\* ------------------------------------------------------- state

VARIABLES
  pc,          \* the phase of the current run
  run,         \* the number of the current run
  now,         \* the clock, in milliseconds
  ticks,       \* clock advances so far
  site,        \* the URLs of the site
  file,        \* the cache file: [exists, text]
  published,   \* the URLs the indexing service holds a submission for
  rpmRetry,    \* options.quota.rpmRetry
  urls,        \* the URL list of the run
  pages,       \* the in-memory cache
  pagesPerIndexingStatus,
  batchIndex,  \* batch(): the chunk being run
  dispatched,  \* batch(): the tasks of the chunk have been started
  inflight,    \* items whose getPageIndexingStatus call has not returned
  batchCompletes, \* the onBatchComplete calls: <<batchIndex, batchCount>>
  queue,       \* the submission queue
  qi,          \* the submission loop: index of the URL being processed
  retriesLeft, \* getPublishMetadata: retries left for the current URL
  waits,       \* getPublishMetadata: backoff waits for the current URL
  \* what the run has done so far
  runStart,    \* the clock when the run started
  cacheExisted, \* whether the cache file existed when it was loaded
  loaded,      \* the cache as loaded
  started,     \* the items whose task has started
  settled,     \* the items whose task has ended
  checks,      \* getPageIndexingStatus calls, per URL
  returned,    \* the last raw status returned, per URL ("none": no return)
  writes,      \* writeFileSync calls
  replies,     \* the replies to the publish-metadata requests for the current URL
  requests,    \* requestIndexing calls, per URL
  prevRequested, \* the URLs the previous run called requestIndexing for
  lastSubmit,  \* the last URL the submission loop finished
  options,     \* the options object of the call
  args,        \* the flags of the command line
  env          \* the environment variables

\* The world outside the process, and the run's number and start.
optionVars == << options, args, env >>
envVars ==
  << run, now, ticks, site, file, published, runStart, prevRequested, optionVars >>
\* The status checks of the run.
checkVars ==
  << urls, pages, pagesPerIndexingStatus, batchIndex, dispatched, inflight,
     batchCompletes, cacheExisted, loaded, started, settled, checks, returned >>
\* The submission loop of the run.
submitVars == << queue, qi, retriesLeft, waits, replies, requests, lastSubmit >>

vars == << pc, rpmRetry, writes, envVars, checkVars, submitVars >>

NoSubmit ==
  [url |-> 0, status |-> 0, waits |-> 0, replies |-> << >>,
   requested |-> FALSE, outcome |-> "none"]

emptyBuckets == [s \in IndexingStatus |-> << >>]

batchCount == chunkCount(Len(urls), BatchSize)

\* The state of a process that has just started.
FreshRun ==
  /\ rpmRetry = FALSE
  /\ urls = << >>
  /\ pages = << >>
  /\ pagesPerIndexingStatus = emptyBuckets
  /\ batchIndex = 0
  /\ dispatched = FALSE
  /\ inflight = {}
  /\ batchCompletes = << >>
  /\ queue = << >>
  /\ qi = 1
  /\ retriesLeft = 0
  /\ waits = 0
  /\ cacheExisted = FALSE
  /\ loaded = << >>
  /\ started = {}
  /\ settled = {}
  /\ checks = [u \in URLS |-> 0]
  /\ returned = [u \in URLS |-> "none"]
  /\ writes = 0
  /\ replies = << >>
  /\ requests = [u \in URLS |-> 0]
  /\ lastSubmit = NoSubmit

\* A new process starts: the same values, in the next state.
ResetRun ==
  /\ rpmRetry' = FALSE
  /\ urls' = << >>
  /\ pages' = << >>
  /\ pagesPerIndexingStatus' = emptyBuckets
  /\ batchIndex' = 0
  /\ dispatched' = FALSE
  /\ inflight' = {}
  /\ batchCompletes' = << >>
  /\ queue' = << >>
  /\ qi' = 1
  /\ retriesLeft' = 0
  /\ waits' = 0
  /\ cacheExisted' = FALSE
  /\ loaded' = << >>
  /\ started' = {}
  /\ settled' = {}
  /\ checks' = [u \in URLS |-> 0]
  /\ returned' = [u \in URLS |-> "none"]
  /\ writes' = 0
  /\ replies' = << >>
  /\ requests' = [u \in URLS |-> 0]
  /\ lastSubmit' = NoSubmit

\* The first run of the program: no cache file, nothing submitted.
FirstRun ==
  /\ pc = "ResolveSite"
  /\ run = 1
  /\ now = 0
  /\ ticks = 0
  /\ file = [exists |-> FALSE, text |-> << >>]
  /\ published = {}
  /\ runStart = 0
  /\ prevRequested = {}
  /\ FreshRun

\* index() called with no option, no flag and no variable set.
DefaultCall ==
  /\ options = [client_email |-> Undefined, private_key |-> Undefined,
                path |-> Undefined, urls |-> [set |-> FALSE, list |-> << >>],
                quota |-> [set |-> FALSE, rpmRetry |-> Undefined]]
  /\ args = [client_email |-> Undefined, private_key |-> Undefined,
             path |-> Undefined, urls |-> [set |-> FALSE, text |-> << >>],
             rpm_retry |-> Undefined]
  /\ env = [GIS_CLIENT_EMAIL |-> Undefined, GIS_PRIVATE_KEY |-> Undefined,
            GIS_PATH |-> Undefined, GIS_QUOTA_RPM_RETRY |-> Undefined]

Init ==
  /\ site = 1..(NumUrls - 1)
  /\ FirstRun
  /\ DefaultCall

\* ------------------------------------------------------- actions

\* index.ts:41-78: the input, the options, the access token, checkSiteUrl.
\* ok = FALSE: one of the process.exit(1) of these lines.
ResolveSite ==
  /\ pc = "ResolveSite"
  /\ \E ok \in BOOLEAN, r \in BOOLEAN :
       /\ pc' = IF ok THEN "EnumerateUrls" ELSE "Fatal"
       /\ rpmRetry' = (ok /\ r)
  /\ UNCHANGED << writes, envVars, checkVars, submitVars >>

\* index.ts:99: the cache, or {} when there is no file
LoadCache == IF file.exists THEN JSON_parse(file.text) ELSE << >>

\* The text is what JSON.stringify writes for a cache: JSON.parse throws a
\* SyntaxError on any other text.
WellFormed(text) == \A i \in 1..Len(text) : Len(text[i]) = 4

\* A file cut short inside its first entry.
Truncated(text) == << IF Len(text) > 0 THEN << text[1][1] >> ELSE << 0 >> >>

\* The load with a file that does not parse taken for an empty cache.
LoadPages_discardMalformed ==
  /\ cacheExisted' = file.exists
  /\ pc' = "CheckStatuses"
  /\ pages' = IF file.exists /\ WellFormed(file.text) THEN LoadCache ELSE << >>
  /\ loaded' = IF file.exists /\ WellFormed(file.text) THEN LoadCache ELSE << >>

\* index.ts:99: existsSync, readFileSync and JSON.parse; the SyntaxError of
\* JSON.parse is not caught and ends the run.
LoadPages ==
  /\ cacheExisted' = file.exists
  /\ IF file.exists /\ ~WellFormed(file.text)
     THEN /\ pc' = "Fatal"
          /\ UNCHANGED << pages, loaded >>
     ELSE /\ pc' = "CheckStatuses"
          /\ pages' = LoadCache
          /\ loaded' = LoadCache

\* index.ts:80-93 then 99-110: no URL list given; the sitemaps of the site.
EnumerateFromSitemaps ==
  /\ pc = "EnumerateUrls"
  /\ \E sitemaps \in 0..1, urlsFromSitemaps \in UrlLists(site) :
       IF sitemaps = 0
       THEN /\ pc' = "Fatal"
            /\ UNCHANGED << urls, pages, loaded, cacheExisted >>
       ELSE /\ urls' = urlsFromSitemaps
            /\ LoadPages
  /\ UNCHANGED << rpmRetry, writes, envVars, submitVars,
                  pagesPerIndexingStatus, batchIndex, dispatched, inflight,
                  batchCompletes, started, settled, checks, returned >>

\* index.ts:94-97 then 99-110: options.urls is not empty; checkCustomUrls
\* returns the URLs to process.
EnumerateCustomUrls ==
  /\ pc = "EnumerateUrls"
  /\ \E custom \in UrlLists(site) \ { << >> } :
       \E keep \in SUBSET (1..Len(custom)) :
         urls' = checkCustomUrls(custom, keep, 1)
  /\ LoadPages
  /\ UNCHANGED << rpmRetry, writes, envVars, submitVars,
                  pagesPerIndexingStatus, batchIndex, dispatched, inflight,
                  batchCompletes, started, settled, checks, returned >>

\* index.ts:143-145
addToBucket(buckets, indexingStatus, u) ==
  [buckets EXCEPT ![indexingStatus] = Append(@, u)]

\* The task with the cache ignored.
needsCheck_always(rec, u, t) == TRUE

\* index.ts:128-129: the first step of the task, whether it calls
\* getPageIndexingStatus
needsCheck(rec, u, t) == ~Has(rec, u) \/ shouldRecheck(Get(rec, u), t)

\* index.ts:131-139
newPage(indexingStatus, t) ==
  [indexingStatus |-> indexingStatus,
   status |-> classify(indexingStatus),
   lastCheckedAt |-> toISOString(t)]

\* The tasks of one chunk started in order, each run to its first await:
\* a task that needs no check runs to its end (index.ts:128-129, 143-145).
RECURSIVE startTasks(_, _, _, _, _)
startTasks(items, j, rec, t, buckets) ==
  IF j > Len(items) THEN buckets
  ELSE LET u == urls[items[j]]
       IN  startTasks(items, j + 1, rec, t,
             IF needsCheck(rec, u, t) THEN buckets
             ELSE addToBucket(buckets, Get(rec, u).indexingStatus, u))

\* batch(): Promise.all(chunk.map(task)) of the next chunk.
DispatchChunk ==
  /\ pc = "CheckStatuses"
  /\ ~dispatched
  /\ batchIndex < batchCount
  /\ LET items == chunkItems(Len(urls), BatchSize, batchIndex)
         chunk == { items[j] : j \in 1..Len(items) }
         calling == { i \in chunk : needsCheck(pages, urls[i], now) }
     IN  /\ inflight' = calling
         /\ started' = started \cup chunk
         /\ settled' = settled \cup (chunk \ calling)
         /\ checks' = [u \in URLS |->
                         checks[u] + Cardinality({ i \in calling : urls[i] = u })]
         /\ pagesPerIndexingStatus' =
              startTasks(items, 1, pages, now, pagesPerIndexingStatus)
  /\ dispatched' = TRUE
  /\ UNCHANGED << pc, rpmRetry, writes, envVars, submitVars, urls, pages,
                  batchIndex, batchCompletes, cacheExisted, loaded, returned >>

\* index.ts:130-145: getPageIndexingStatus returns for item i.
CompleteCheck(i) ==
  /\ pc = "CheckStatuses"
  /\ i \in inflight
  /\ \E indexingStatus \in StatusReplies :
       LET u == urls[i]
           page == newPage(indexingStatus, now)
       IN  /\ pages' = Put(pages, u, page)
           /\ pagesPerIndexingStatus' =
                addToBucket(pagesPerIndexingStatus, page.indexingStatus, u)
           /\ returned' = [returned EXCEPT ![u] = indexingStatus]
  /\ inflight' = inflight \ {i}
  /\ settled' = settled \cup {i}
  /\ UNCHANGED << pc, rpmRetry, writes, envVars, submitVars, urls, batchIndex,
                  dispatched, batchCompletes, cacheExisted, loaded, started,
                  checks >>

\* batch() without the barrier.
chunkSettled_noBarrier == dispatched

\* batch(): every task of the chunk has settled
chunkSettled == dispatched /\ inflight = {}

\* batch(): onBatchComplete(batchIndex, batchCount), index.ts:149-151
BatchComplete ==
  /\ pc = "CheckStatuses"
  /\ dispatched
  /\ chunkSettled
  /\ batchCompletes' = Append(batchCompletes, << batchIndex, batchCount >>)
  /\ batchIndex' = batchIndex + 1
  /\ dispatched' = FALSE
  /\ UNCHANGED << pc, rpmRetry, writes, envVars, submitVars, urls, pages,
                  pagesPerIndexingStatus, inflight, cacheExisted, loaded,
                  started, settled, checks, returned >>

\* index.ts:126-152: await batch(...) returns
BatchReturns ==
  /\ pc = "CheckStatuses"
  /\ ~dispatched
  /\ batchIndex = batchCount
  /\ pc' = "PersistCache"
  /\ UNCHANGED << rpmRetry, writes, envVars, checkVars, submitVars >>

\* The save of the entries of the enumerated URLs only.
PersistCache_enumeratedOnly ==
  /\ pc = "PersistCache"
  /\ file' = [exists |-> TRUE,
              text |-> JSON_stringify(SelectSeq(pages, LAMBDA e : e.url \in Range(urls)))]
  /\ writes' = writes + 1
  /\ pc' = "SelectEligible"
  /\ UNCHANGED << rpmRetry, run, now, ticks, site, published, runStart,
                  prevRequested, optionVars, checkVars, submitVars >>

\* The run going on without saving the cache.
PersistCache_skipped ==
  /\ pc = "PersistCache"
  /\ pc' = "SelectEligible"
  /\ UNCHANGED << rpmRetry, writes, envVars, checkVars, submitVars >>

\* index.ts:154-157
PersistCache ==
  /\ pc = "PersistCache"
  /\ file' = [exists |-> TRUE, text |-> JSON_stringify(pages)]
  /\ writes' = writes + 1
  /\ pc' = "SelectEligible"
  /\ UNCHANGED << rpmRetry, run, now, ticks, site, published, runStart,
                  prevRequested, optionVars, checkVars, submitVars >>

\* index.ts:170
RECURSIVE filterKeys(_, _)
filterKeys(rec, j) ==
  IF j > Len(rec) THEN << >>
  ELSE (IF shouldBeSubmitted(rec[j].page) THEN << rec[j].url >> ELSE << >>)
       \o filterKeys(rec, j + 1)

\* index.ts:159-178
SelectEligible ==
  /\ pc = "SelectEligible"
  /\ queue' = filterKeys(pages, 1)
  /\ qi' = 1
  /\ retriesLeft' = retriesOnRateLimit(rpmRetry)
  /\ waits' = 0
  /\ replies' = << >>
  /\ pc' = "Submit"
  /\ UNCHANGED << rpmRetry, writes, envVars, checkVars, requests, lastSubmit >>

\* getPublishMetadata: the request is rate-limited and a retry is left; the
\* call waits and asks again.
RateLimitBackoff ==
  /\ pc = "Submit"
  /\ qi <= Len(queue)
  /\ 429 \in MetadataReplies(published, queue[qi])
  /\ retriesLeft > 0
  /\ retriesLeft' = retriesLeft - 1
  /\ waits' = waits + 1
  /\ replies' = Append(replies, 429)
  /\ UNCHANGED << pc, rpmRetry, writes, envVars, checkVars, queue, qi,
                  requests, lastSubmit >>

\* index.ts:180-192: getPublishMetadata returns status for queue[qi]; the
\* loop requests indexing or not and goes on to the next URL.
SubmitUrl ==
  /\ pc = "Submit"
  /\ qi <= Len(queue)
  /\ \E status \in MetadataReplies(published, queue[qi]) :
       /\ status = 429 => retriesLeft = 0
       /\ LET u == queue[qi]
              req == isNotFound(status)
          IN  /\ published' = IF req THEN published \cup {u} ELSE published
              /\ requests' = IF req THEN [requests EXCEPT ![u] = @ + 1]
                             ELSE requests
              /\ lastSubmit' = [url |-> u, status |-> status, waits |-> waits,
                                replies |-> Append(replies, status),
                                requested |-> req, outcome |-> Outcome(status)]
       /\ qi' = afterUrl(qi, status)
  /\ retriesLeft' = retriesOnRateLimit(rpmRetry)
  /\ waits' = 0
  /\ replies' = << >>
  /\ UNCHANGED << pc, rpmRetry, writes, run, now, ticks, site, file, runStart,
                  prevRequested, optionVars, checkVars, queue >>

\* index.ts:194-197
AllDone ==
  /\ pc = "Submit"
  /\ qi > Len(queue)
  /\ pc' = "Done"
  /\ UNCHANGED << rpmRetry, writes, envVars, checkVars, submitVars >>

\* The program is started again: a new process, the same cache file and
\* indexing service.
StartRun ==
  /\ pc \in { "Done", "Fatal" }
  /\ run < MaxRuns
  /\ run' = run + 1
  /\ pc' = "ResolveSite"
  /\ runStart' = now
  /\ prevRequested' = { u \in URLS : requests[u] > 0 }
  /\ ResetRun
  /\ UNCHANGED << now, ticks, site, file, published, optionVars >>

\* Time passes.  Between two runs: a millisecond, or the cache timeout
\* (once: the clock of the model stays below twice the timeout).  Between
\* two batches of a run: a millisecond.
Tick ==
  /\ ticks < MaxTicks
  /\ \E d \in { 1, CACHE_TIMEOUT } :
       /\ d = CACHE_TIMEOUT => now < CACHE_TIMEOUT /\ pc \in { "Done", "Fatal" }
       /\ d = 1 => \/ pc \in { "Done", "Fatal" }
                   \/ pc = "CheckStatuses" /\ ~dispatched /\ batchIndex > 0
       /\ now' = now + d
  /\ ticks' = ticks + 1
  /\ UNCHANGED << pc, rpmRetry, writes, run, site, file, published, runStart,
                  prevRequested, optionVars, checkVars, submitVars >>

\* Something other than the program damages the cache file between two
\* runs.
CorruptCache ==
  /\ pc \in { "Done", "Fatal" }
  /\ file.exists
  /\ WellFormed(file.text)
  /\ file' = [exists |-> TRUE, text |-> Truncated(file.text)]
  /\ UNCHANGED << pc, rpmRetry, writes, run, now, ticks, site, published,
                  runStart, prevRequested, optionVars, checkVars, submitVars >>

\* One run of the program.
RunStep ==
  \/ ResolveSite
  \/ EnumerateFromSitemaps
  \/ EnumerateCustomUrls
  \/ DispatchChunk
  \/ \E i \in 1..MaxUrls : CompleteCheck(i)
  \/ BatchComplete
  \/ BatchReturns
  \/ PersistCache
  \/ SelectEligible
  \/ RateLimitBackoff
  \/ SubmitUrl
  \/ AllDone
  \/ Tick

Next == RunStep \/ StartRun

\* A step of the program itself: a statement runs or an external call
\* returns.
ProgramStep ==
  \/ ResolveSite
  \/ EnumerateFromSitemaps
  \/ EnumerateCustomUrls
  \/ DispatchChunk
  \/ \E i \in 1..MaxUrls : CompleteCheck(i)
  \/ BatchComplete
  \/ BatchReturns
  \/ PersistCache
  \/ SelectEligible
  \/ RateLimitBackoff
  \/ SubmitUrl
  \/ AllDone

\* Runs of the program, one after the other, on a site of NumUrls - 1 URLs.
Spec == Init /\ [][Next]_vars

\* One run of the program, with no cache file, on a site of NumUrls URLs.
InitColdStart ==
  /\ site = URLS
  /\ FirstRun
  /\ DefaultCall

SpecColdStart == InitColdStart /\ [][RunStep]_vars

\* One run of the program in which every external call returns and the
\* event loop runs what is ready: the program does not stop while it has a
\* step to take.
SpecFair == Init /\ [][RunStep]_vars /\ WF_vars(ProgramStep)

\* Runs of the program on a site of NumUrls - 2 URLs whose cache file may
\* be damaged between two runs.
InitSmallSite ==
  /\ site = 1..(NumUrls - 2)
  /\ FirstRun
  /\ DefaultCall

NextCacheLoad == RunStep \/ StartRun \/ CorruptCache

SpecCacheLoad == InitSmallSite /\ [][NextCacheLoad]_vars

\* The task's classification alone (index.ts:130-140): a status check of
\* url u returns any of the statuses and the page is put in the cache.
ClassifyOne ==
  /\ \E u \in site, indexingStatus \in IndexingStatus :
       /\ pages' = Put(pages, u, newPage(indexingStatus, now))
       /\ returned' = [returned EXCEPT ![u] = indexingStatus]
  /\ UNCHANGED << pc, rpmRetry, writes, envVars, submitVars, urls,
                  pagesPerIndexingStatus, batchIndex, dispatched, inflight,
                  batchCompletes, cacheExisted, loaded, started, settled,
                  checks >>

SpecClassify == Init /\ [][ClassifyOne]_vars

\* index.ts:48-65: the options are resolved, in place, from the call-site
\* values, the flags and the environment.
ResolveOptions ==
  /\ pc = "ResolveSite"
  /\ options' =
       [client_email |->
          resolveString(options.client_email, args.client_email, env.GIS_CLIENT_EMAIL),
        private_key |->
          resolveString(options.private_key, args.private_key, env.GIS_PRIVATE_KEY),
        path |-> resolveString(options.path, args.path, env.GIS_PATH),
        urls |-> resolveUrls(options.urls, args.urls),
        quota |-> resolveQuota(options.quota, args.rpm_retry, env.GIS_QUOTA_RPM_RETRY)]
  /\ rpmRetry' = (options'.quota.rpmRetry = "true")
  /\ pc' = "OptionsResolved"
  /\ UNCHANGED << writes, run, now, ticks, site, file, published, runStart,
                  prevRequested, args, env, checkVars, submitVars >>

\* A call of index() with any options, command line and environment.
InitOptions ==
  /\ site = 1..(NumUrls - 1)
  /\ FirstRun
  /\ options \in CallSiteOptions
  /\ args \in CommandLines
  /\ env \in Environments

\* The option resolution alone.
SpecOptions == InitOptions /\ [][ResolveOptions]_vars

\* ------------------------------------------------------- part_001

\* The pipeline of part_001: the cache maps a URL to { status,
\* lastCheckedAt }, status being the raw indexing status; the entries are
\* rechecked by the indexable-and-age policy and the URLs to submit are taken
\* from the buckets.  It has the phases of index.ts and is modelled on the
\* same variables: pages is statusPerUrl, pagesPerIndexingStatus is
\* pagesPerStatus, urls is the list part_001 calls pages.

\* part_001:127-134
V_indexableStatuses ==
  { "DiscoveredCurrentlyNotIndexed", "CrawledCurrentlyNotIndexed",
    "URLIsUnknownToGoogle", "Forbidden", "Error", "RateLimited" }

\* part_001's shouldRecheck by age alone.
V_shouldRecheck_ageOnly(status, lastCheckedAt, t) ==
  DateOf(lastCheckedAt) < t - CACHE_TIMEOUT

\* part_001:136-140; t is Date.now()
V_shouldRecheck(status, lastCheckedAt, t) ==
  LET shouldIndexIt == status \in V_indexableStatuses
      isOld == DateOf(lastCheckedAt) < t - CACHE_TIMEOUT
  IN  shouldIndexIt /\ isOld

\* part_001:147-148
V_needsCheck(rec, u, t) ==
  ~Has(rec, u) \/ V_shouldRecheck(Get(rec, u).status, Get(rec, u).lastCheckedAt, t)

\* part_001:150
V_result(status, t) == [status |-> status, lastCheckedAt |-> toISOString(t)]

\* part_001:168, JSON.stringify(statusPerUrl, null, 2)
V_JSON_stringify(rec) ==
  [i \in 1..Len(rec) |-> << rec[i].url, rec[i].page.status, rec[i].page.lastCheckedAt >>]

\* part_001:113, JSON.parse of a file V_JSON_stringify wrote
V_JSON_parse(text) ==
  [i \in 1..Len(text) |->
     [url |-> text[i][1],
      page |-> [status |-> text[i][2], lastCheckedAt |-> text[i][3]]]]

V_WellFormed(text) == \A i \in 1..Len(text) : Len(text[i]) = 3

\* part_001:112-114
V_LoadPages ==
  /\ cacheExisted' = file.exists
  /\ IF file.exists /\ ~V_WellFormed(file.text)
     THEN /\ pc' = "Fatal"
          /\ UNCHANGED << pages, loaded >>
     ELSE /\ pc' = "CheckStatuses"
          /\ pages' = IF file.exists THEN V_JSON_parse(file.text) ELSE << >>
          /\ loaded' = IF file.exists THEN V_JSON_parse(file.text) ELSE << >>

\* part_001:93-106 then 112-125
V_EnumerateFromSitemaps ==
  /\ pc = "EnumerateUrls"
  /\ \E sitemaps \in 0..1, pagesFromSitemaps \in UrlLists(site) :
       IF sitemaps = 0
       THEN /\ pc' = "Fatal"
            /\ UNCHANGED << urls, pages, loaded, cacheExisted >>
       ELSE /\ urls' = pagesFromSitemaps
            /\ V_LoadPages
  /\ UNCHANGED << rpmRetry, writes, envVars, submitVars,
                  pagesPerIndexingStatus, batchIndex, dispatched, inflight,
                  batchCompletes, started, settled, checks, returned >>

\* part_001:107-110 then 112-125
V_EnumerateCustomUrls ==
  /\ pc = "EnumerateUrls"
  /\ \E custom \in UrlLists(site) \ { << >> } :
       \E keep \in SUBSET (1..Len(custom)) :
         urls' = checkCustomUrls(custom, keep, 1)
  /\ V_LoadPages
  /\ UNCHANGED << rpmRetry, writes, envVars, submitVars,
                  pagesPerIndexingStatus, batchIndex, dispatched, inflight,
                  batchCompletes, started, settled, checks, returned >>

\* The tasks of one chunk started in order, each run to its first await
\* (part_001:147-148, 154).
RECURSIVE V_startTasks(_, _, _, _, _)
V_startTasks(items, j, rec, t, buckets) ==
  IF j > Len(items) THEN buckets
  ELSE LET u == urls[items[j]]
       IN  V_startTasks(items, j + 1, rec, t,
             IF V_needsCheck(rec, u, t) THEN buckets
             ELSE addToBucket(buckets, Get(rec, u).status, u))

\* part_001:145-159: batch() starts the tasks of the next chunk.
V_DispatchChunk ==
  /\ pc = "CheckStatuses"
  /\ ~dispatched
  /\ batchIndex < batchCount
  /\ LET items == chunkItems(Len(urls), BatchSize, batchIndex)
         chunk == { items[j] : j \in 1..Len(items) }
         calling == { i \in chunk : V_needsCheck(pages, urls[i], now) }
     IN  /\ inflight' = calling
         /\ started' = started \cup chunk
         /\ settled' = settled \cup (chunk \ calling)
         /\ checks' = [u \in URLS |->
                         checks[u] + Cardinality({ i \in calling : urls[i] = u })]
         /\ pagesPerIndexingStatus' =
              V_startTasks(items, 1, pages, now, pagesPerIndexingStatus)
  /\ dispatched' = TRUE
  /\ UNCHANGED << pc, rpmRetry, writes, envVars, submitVars, urls, pages,
                  batchIndex, batchCompletes, cacheExisted, loaded, returned >>

\* part_001:149-154: getPageIndexingStatus returns for item i.
V_CompleteCheck(i) ==
  /\ pc = "CheckStatuses"
  /\ i \in inflight
  /\ \E status \in StatusReplies :
       LET u == urls[i]
       IN  /\ pages' = Put(pages, u, V_result(status, now))
           /\ pagesPerIndexingStatus' = addToBucket(pagesPerIndexingStatus, status, u)
           /\ returned' = [returned EXCEPT ![u] = status]
  /\ inflight' = inflight \ {i}
  /\ settled' = settled \cup {i}
  /\ UNCHANGED << pc, rpmRetry, writes, envVars, submitVars, urls, batchIndex,
                  dispatched, batchCompletes, cacheExisted, loaded, started,
                  checks >>

\* part_001:165-168
V_PersistCache ==
  /\ pc = "PersistCache"
  /\ file' = [exists |-> TRUE, text |-> V_JSON_stringify(pages)]
  /\ writes' = writes + 1
  /\ pc' = "SelectEligible"
  /\ UNCHANGED << rpmRetry, run, now, ticks, site, published, runStart,
                  prevRequested, optionVars, checkVars, submitVars >>

\* part_001:115-125: the keys of pagesPerStatus, in the order of the literal
V_StatusKeys ==
  << "SubmittedAndIndexed", "DuplicateWithoutUserSelectedCanonical",
     "CrawledCurrentlyNotIndexed", "DiscoveredCurrentlyNotIndexed",
     "PageWithRedirect", "URLIsUnknownToGoogle", "RateLimited", "Forbidden",
     "Error" >>

\* part_001:177-179: Object.entries(pagesPerStatus).flatMap(...)
RECURSIVE V_indexablePages(_, _)
V_indexablePages(buckets, k) ==
  IF k > Len(V_StatusKeys) THEN << >>
  ELSE (IF V_StatusKeys[k] \in V_indexableStatuses
        THEN buckets[V_StatusKeys[k]] ELSE << >>)
       \o V_indexablePages(buckets, k + 1)

\* part_001:170-186
V_SelectEligible ==
  /\ pc = "SelectEligible"
  /\ queue' = V_indexablePages(pagesPerIndexingStatus, 1)
  /\ qi' = 1
  /\ retriesLeft' = retriesOnRateLimit(rpmRetry)
  /\ waits' = 0
  /\ replies' = << >>
  /\ pc' = "Submit"
  /\ UNCHANGED << rpmRetry, writes, envVars, checkVars, requests, lastSubmit >>

\* Runs of part_001; what index.ts and part_001 have word for word
\* (resolving the site, batch(), the submission loop) is one action for both.
NextVariant ==
  \/ ResolveSite
  \/ V_EnumerateFromSitemaps
  \/ V_EnumerateCustomUrls
  \/ V_DispatchChunk
  \/ \E i \in 1..MaxUrls : V_CompleteCheck(i)
  \/ BatchComplete
  \/ BatchReturns
  \/ V_PersistCache
  \/ V_SelectEligible
  \/ RateLimitBackoff
  \/ SubmitUrl
  \/ AllDone
  \/ Tick
  \/ StartRun

SpecVariant == Init /\ [][NextVariant]_vars

\* ------------------------------------------------------- claims

\* The decision table of the classifier, as the specification states it.
DecisionTable(raw) ==
  CASE raw \in { "DiscoveredCurrentlyNotIndexed", "CrawledCurrentlyNotIndexed",
                 "URLIsUnknownToGoogle", "Forbidden", "Error" } -> "Pending"
    [] raw = "RateLimited" -> "Failed"
    [] raw \in { "SubmittedAndIndexed", "DuplicateWithoutUserSelectedCanonical",
                 "PageWithRedirect" } -> "Completed"

FourteenDays == 14 * 24 * 60 * 60 * 1000

\* The instant an ISO string names is strictly earlier than the instant t.
Earlier(iso, t) ==
  \/ iso.day < t \div MsPerDay
  \/ iso.day = t \div MsPerDay /\ iso.ms < t % MsPerDay

Distinct(s) == \A i, j \in 1..Len(s) : s[i] = s[j] => i = j

\* A publish-metadata request has been sent in this run.
queried == waits > 0 \/ qi > 1

\* C1: the status the task stores for a raw status is defined for each of
\* the nine raw statuses and is the one the decision table gives: Pending
\* for exactly the five indexable statuses, Failed for exactly RateLimited,
\* Completed for the three others, and never Processing.
C1_ClassifyFollowsTable ==
  \A k \in 1..Len(pages) :
    LET raw == pages[k].page.indexingStatus
        st == pages[k].page.status
    IN  /\ raw = returned[pages[k].url]
        /\ raw \in IndexingStatus
        /\ st \in PageStatus \ { "Processing" }
        /\ st = DecisionTable(raw)
        /\ st = "Pending" <=>
             raw \in { "DiscoveredCurrentlyNotIndexed", "CrawledCurrentlyNotIndexed",
                       "URLIsUnknownToGoogle", "Forbidden", "Error" }
        /\ st = "Failed" <=> raw = "RateLimited"

\* C1 witness: a RateLimited page stored as Failed beside a redirecting
\* page stored as Completed.
C1_Witness ==
  \E j, k \in 1..Len(pages) :
    /\ pages[j].page.indexingStatus = "RateLimited"
    /\ pages[j].page.status = "Failed"
    /\ pages[k].page.indexingStatus = "PageWithRedirect"
    /\ pages[k].page.status = "Completed"

\* C6: when a chunk's tasks start, a URL that has a cache entry is checked
\* again iff the entry's status is Failed or its lastCheckedAt is strictly
\* earlier than the clock minus 14 days; an entry that is not Failed and is
\* exactly 14 days old is not checked, one a millisecond older is.
C6_RecheckIffFailedOrOld ==
  [][ (pc = "CheckStatuses" /\ ~dispatched /\ dispatched') =>
        \A i \in started' \ started :
          Has(pages, urls[i]) =>
            LET e == Get(pages, urls[i])
            IN  /\ (i \in inflight') <=>
                     (e.status = "Failed" \/ Earlier(e.lastCheckedAt, now - FourteenDays))
                /\ (e.status # "Failed" /\ DateOf(e.lastCheckedAt) = now - FourteenDays)
                     => i \notin inflight'
                /\ DateOf(e.lastCheckedAt) = now - FourteenDays - 1
                     => i \in inflight'
    ]_vars

\* C6 witness: the tasks of the first chunk have just started; one URL's
\* entry, not Failed, is 14 days and a millisecond old and is being checked,
\* another's, not Failed, is exactly 14 days old and was not checked.
C6_Witness ==
  /\ pc = "CheckStatuses"
  /\ dispatched
  /\ batchIndex = 0
  /\ \E i, j \in started :
       /\ i \in inflight
       /\ Has(loaded, urls[i])
       /\ Get(loaded, urls[i]).status # "Failed"
       /\ now - DateOf(Get(loaded, urls[i]).lastCheckedAt) = FourteenDays + 1
       /\ j \in settled
       /\ checks[urls[j]] = 0
       /\ Has(loaded, urls[j])
       /\ Get(loaded, urls[j]).status # "Failed"
       /\ now - DateOf(Get(loaded, urls[j]).lastCheckedAt) = FourteenDays

\* C7: a URL whose cache entry says RateLimited is stored as Failed, is not
\* in the submission queue of the run, and is checked again by the next run
\* that enumerates it, however little time has passed.
C7_RateLimitedRecheckedNotQueued ==
  /\ \A k \in 1..Len(pages) :
       pages[k].page.indexingStatus = "RateLimited" =>
         /\ pages[k].page.status = "Failed"
         /\ pc \in { "Submit", "Done" } => pages[k].url \notin Range(queue)
  /\ pc \in { "PersistCache", "SelectEligible", "Submit", "Done" } =>
       \A u \in Range(urls) :
         (Has(loaded, u) /\ Get(loaded, u).indexingStatus = "RateLimited")
           => checks[u] >= 1

\* C7 witness: the second run has checked again, with no time passed since
\* the first check, a URL it loaded as RateLimited.
C7_Witness ==
  /\ run = 2
  /\ pc = "PersistCache"
  /\ \E u \in Range(urls) :
       /\ Has(loaded, u)
       /\ Get(loaded, u).indexingStatus = "RateLimited"
       /\ DateOf(Get(loaded, u).lastCheckedAt) = now
       /\ checks[u] >= 1

\* C2: a URL the previous run requested indexing for gets no indexing
\* request in this run; a publish-metadata query for it never reports "not
\* found", and when it reports a status below 400 the outcome is
\* AlreadyRequested; and when this run enumerates the URL and ends no later
\* than 14 days after the entry's lastCheckedAt, the URL was not checked
\* again and was in the submission queue, so the query was made.
C2_SecondRunDoesNotResubmit ==
  \A u \in prevRequested :
    /\ requests[u] = 0
    /\ u \in published
    /\ lastSubmit.url = u =>
         /\ lastSubmit.status # 404
         /\ ~lastSubmit.requested
         /\ lastSubmit.status < 400 => lastSubmit.outcome = "AlreadyRequested"
    /\ ( /\ pc = "Done"
         /\ u \in Range(urls)
         /\ Has(loaded, u)
         /\ now - DateOf(Get(loaded, u).lastCheckedAt) <= FourteenDays )
       => /\ checks[u] = 0
          /\ u \in Range(queue)

\* C2 witness: the second run, started with no time passed, has ended; a
\* URL the first run requested indexing for was enumerated again, queried,
\* and found already requested.
C2_Witness ==
  /\ run = 2
  /\ pc = "Done"
  /\ ticks = 0
  /\ \E u \in prevRequested :
       /\ u \in Range(urls)
       /\ lastSubmit.url = u
       /\ lastSubmit.status = 200
       /\ lastSubmit.outcome = "AlreadyRequested"
       /\ requests[u] = 0

\* C3: each backoff wait follows a rate-limited reply.  With rpmRetry on, a
\* call whose first two replies are rate-limited and whose third is not an
\* error ends there, after exactly 2 waits, with a non-failure outcome, and
\* a call that ends rate-limited has waited 3 times.  With rpmRetry off, a
\* call whose first reply is rate-limited ends there, with no wait, the
\* outcome PermanentFailure and no indexing request.
C3_RetryOnRateLimit ==
  /\ waits = Len(replies)
  /\ \A k \in 1..Len(replies) : replies[k] = 429
  /\ waits <= 3
  /\ lastSubmit.outcome # "none" =>
       LET r == lastSubmit.replies
       IN  /\ lastSubmit.waits = Len(r) - 1
           /\ \A k \in 1..(Len(r) - 1) : r[k] = 429
           /\ ( /\ rpmRetry
                /\ Len(r) >= 3
                /\ r[1] = 429 /\ r[2] = 429 /\ r[3] \in { 200, 404 } )
              => /\ Len(r) = 3
                 /\ lastSubmit.waits = 2
                 /\ lastSubmit.outcome \in { "NewlySubmitted", "AlreadyRequested" }
           /\ (rpmRetry /\ lastSubmit.status = 429) => lastSubmit.waits = 3
           /\ (~rpmRetry /\ r[1] = 429)
              => /\ Len(r) = 1
                 /\ lastSubmit.waits = 0
                 /\ lastSubmit.outcome = "PermanentFailure"
                 /\ ~lastSubmit.requested
                 /\ requests[lastSubmit.url] = 0

\* C3 witness: with rpmRetry on, a call was rate-limited twice, answered
\* the third time, and the URL was submitted after 2 waits.
C3_Witness ==
  /\ rpmRetry
  /\ lastSubmit.replies = << 429, 429, 404 >>
  /\ lastSubmit.waits = 2
  /\ lastSubmit.outcome = "NewlySubmitted"

\* C4: the items are split into ceil(N / B) consecutive chunks, each of B
\* items but the last, which has the rest (120 items by 50: 50, 50, 20);
\* onBatchComplete is called once per chunk, in order, after every item of
\* the chunk has settled and before an item of the next chunk starts; an
\* item in flight belongs to the chunk being run.
C4_BatchBarrier ==
  LET N == Len(urls)
      B == BatchSize
      K == batchCount
      chunkOf(i) == (i - 1) \div B
  IN  /\ K * B >= N
      /\ N > 0 => (K - 1) * B < N
      /\ N = 0 => K = 0
      /\ \A k \in 0..(K - 1) :
           /\ Len(chunkItems(N, B, k)) = IF k < K - 1 THEN B ELSE N - B * (K - 1)
           /\ \A j \in 1..Len(chunkItems(N, B, k)) : chunkItems(N, B, k)[j] = k * B + j
      /\ chunkCount(120, 50) = 3
      /\ << Len(chunkItems(120, 50, 0)), Len(chunkItems(120, 50, 1)),
            Len(chunkItems(120, 50, 2)) >> = << 50, 50, 20 >>
      /\ Len(batchCompletes) <= K
      /\ \A k \in 1..Len(batchCompletes) :
           /\ batchCompletes[k] = << k - 1, K >>
           /\ \A i \in 1..N : chunkOf(i) = k - 1 => i \in settled
      /\ \A i \in started : chunkOf(i) <= Len(batchCompletes)
      /\ inflight = started \ settled
      /\ \A i \in inflight : chunkOf(i) = Len(batchCompletes)
      /\ \A i \in inflight, j \in started : chunkOf(j) <= chunkOf(i)
      /\ pc \in { "PersistCache", "SelectEligible", "Submit", "Done" } =>
           /\ Len(batchCompletes) = K
           /\ settled = 1..N

\* C4 witness: three items by two; the first chunk has settled and
\* onBatchComplete was called for it, the item of the second chunk is in
\* flight.
C4_Witness ==
  /\ pc = "CheckStatuses"
  /\ Len(urls) = 3
  /\ batchCount = 2
  /\ batchCompletes = << << 0, 2 >> >>
  /\ settled = { 1, 2 }
  /\ inflight = { 3 }

\* C5: after a run that found no cache file and enumerated distinct URLs,
\* the saved cache has exactly one entry per enumerated URL, each with the
\* raw status the check returned, the status the decision table gives for
\* it and a lastCheckedAt within the run; the submission queue holds, once
\* each, exactly the URLs whose status is Pending.
C5_ColdStartRun ==
  ( /\ pc \in { "SelectEligible", "Submit", "Done" }
    /\ ~cacheExisted
    /\ Distinct(urls) )
  => /\ file.exists
     /\ writes = 1
     /\ Len(file.text) = Len(urls)
     /\ { file.text[k][1] : k \in 1..Len(file.text) } = Range(urls)
     /\ \A k \in 1..Len(file.text) :
          LET u == file.text[k][1]
          IN  /\ checks[u] = 1
              /\ returned[u] \in IndexingStatus
              /\ file.text[k][2] = returned[u]
              /\ file.text[k][3] = DecisionTable(returned[u])
              /\ runStart <= DateOf(file.text[k][4])
              /\ DateOf(file.text[k][4]) <= now
     /\ pc \in { "Submit", "Done" } =>
          /\ Range(queue) =
               { u \in Range(urls) : DecisionTable(returned[u]) = "Pending" }
          /\ Distinct(queue)

\* C5 witness: three URLs, no cache file, the statuses
\* DiscoveredCurrentlyNotIndexed, SubmittedAndIndexed and RateLimited: a
\* cache of 3 entries, one Pending, one Completed, one Failed, and a queue
\* of 1 URL.
C5_Witness ==
  /\ pc = "Done"
  /\ ~cacheExisted
  /\ urls = << 1, 2, 3 >>
  /\ returned = [u \in URLS |->
                   CASE u = 1 -> "DiscoveredCurrentlyNotIndexed"
                     [] u = 2 -> "SubmittedAndIndexed"
                     [] OTHER -> "RateLimited"]
  /\ Len(file.text) = 3
  /\ { file.text[k][3] : k \in 1..3 } = { "Pending", "Completed", "Failed" }
  /\ queue = << 1 >>

\* The place of a phase in the sequence of the pipeline.
Rank(p) ==
  CASE p = "ResolveSite" -> 1
    [] p = "EnumerateUrls" -> 2
    [] p = "CheckStatuses" -> 3
    [] p = "PersistCache" -> 4
    [] p = "SelectEligible" -> 5
    [] p = "Submit" -> 6
    [] p = "Done" -> 7

\* C8: within a run the phases follow one another in the order ResolveSite,
\* EnumerateUrls, CheckStatuses, PersistCache, SelectEligible, Submit, Done
\* (or the run exits from one of the first two); the cache file is written
\* once, when every status check has settled and before any
\* publish-metadata request or indexing request; a run that is Done has
\* written it exactly once.
C8_PhaseOrderSingleWrite ==
  [][ run' = run =>
        /\ pc' # pc =>
             \/ pc' = "Fatal" /\ pc \in { "ResolveSite", "EnumerateUrls" }
             \/ pc # "Fatal" /\ pc' # "Fatal" /\ Rank(pc') = Rank(pc) + 1
        /\ file' # file => writes' # writes
        /\ writes' # writes =>
             /\ writes = 0 /\ writes' = 1
             /\ inflight = {}
             /\ settled = 1..Len(urls)
             /\ ~queried
             /\ \A u \in URLS : requests[u] = 0
             /\ file'.exists /\ JSON_parse(file'.text) = pages
        /\ checks' # checks => writes = 0
        /\ pages' # pages => writes = 0
        /\ (queried' /\ ~queried) => writes = 1
        /\ requests' # requests => writes = 1
        /\ pc' = "Done" => writes' = 1
    ]_vars

\* C8 witness: a run is Done after status checks, one write of the cache
\* file and an indexing request.
C8_Witness ==
  /\ pc = "Done"
  /\ writes = 1
  /\ \E u \in URLS : checks[u] > 0
  /\ \E u \in URLS : requests[u] = 1
  /\ queried

\* C9: when the enumeration yields no URL the run exits at once: it makes
\* no status check, does not write the cache file, sends no
\* publish-metadata request and no indexing request, and never gets to the
\* phases after the status checks.
C9_NoUrlsIsFatal ==
  (pc \notin { "ResolveSite", "EnumerateUrls" } /\ Len(urls) = 0) =>
    /\ pc \notin { "SelectEligible", "Submit", "Done" }
    /\ writes = 0
    /\ ~queried
    /\ \A u \in URLS : checks[u] = 0 /\ requests[u] = 0

\* C10: an indexing request for a URL is made only in the step that ends
\* the publish-metadata query for that URL with the status 404, and it is
\* the first of the run for the URL; a query that ends with another status
\* is followed by no indexing request.
C10_RequestOnlyOnNotFound ==
  [][ run' = run =>
        /\ \A u \in URLS :
             requests'[u] # requests[u] =>
               /\ requests[u] = 0 /\ requests'[u] = 1
               /\ pc = "Submit" /\ qi <= Len(queue) /\ queue[qi] = u
               /\ qi' = qi + 1
               /\ lastSubmit'.url = u
               /\ lastSubmit'.status = 404
               /\ \A v \in URLS \ {u} : requests'[v] = requests[v]
        /\ qi' = qi + 1 =>
             /\ lastSubmit'.url = queue[qi]
             /\ lastSubmit'.status = 404 => requests'[queue[qi]] = 1
             /\ lastSubmit'.status # 404 => requests' = requests
    ]_vars

\* C10 witness: in one run an indexing request was made for a URL whose
\* query said 404, and none for a URL whose query ended with an error.
C10_Witness ==
  /\ pc = "Submit"
  /\ \E u \in URLS : requests[u] = 1 /\ u # lastSubmit.url
  /\ lastSubmit.status \in { 403, 429 }
  /\ lastSubmit.outcome = "PermanentFailure"
  /\ requests[lastSubmit.url] = 0

\* C11: under the assumption that every external call returns, a run
\* reaches Done or a fatal exit, for every URL list and every sequence of
\* replies of the services; with rpmRetry on, a URL's publish-metadata
\* query waits at most 3 times, with rpmRetry off it never waits.
C11_RunTerminates ==
  /\ [](waits <= QUOTA_rpm_retries /\ (~rpmRetry => waits = 0))
  /\ <>(pc \in { "Done", "Fatal" })

\* C11 witness: a run with rpmRetry on is Done after a query that was
\* rate-limited four times, waited 3 times and gave up, and after status
\* checks in two batches.
C11_Witness ==
  /\ pc = "Done"
  /\ rpmRetry
  /\ lastSubmit.waits = 3
  /\ lastSubmit.status = 429
  /\ Len(batchCompletes) = 2

\* C16: the submission loop leaves the queue as it is and finishes its URLs
\* one by one in queue order: a step that ends the query of a URL ends the
\* one at the loop's position and moves the position by one, whatever the
\* status; the queue holds no URL twice; the run is Done only past the last
\* URL; and every URL of the queue is, in the end, queried and passed.
C16_SequentialSubmission ==
  /\ [][ pc = "Submit" =>
           /\ queue' = queue
           /\ qi' # qi =>
                /\ qi <= Len(queue)
                /\ qi' = qi + 1
                /\ lastSubmit'.url = queue[qi]
                /\ lastSubmit'.outcome = Outcome(lastSubmit'.status)
           /\ (waits' # waits /\ qi' = qi) => waits' = waits + 1 /\ qi <= Len(queue)
           /\ pc' = "Done" => qi = Len(queue) + 1
     ]_vars
  /\ [](pc \in { "Submit", "Done" } => Distinct(queue))
  /\ \A k \in 1..MaxUrls :
       (pc = "Submit" /\ k <= Len(queue)) ~> (pc = "Done" /\ qi > k)

\* C16 witness: a queue of two URLs; the query of the first ended with an
\* error status and no indexing request, and the second was then queried
\* and submitted.
C16_Witness ==
  /\ pc = "Done"
  /\ Len(queue) = 2
  /\ requests[queue[1]] = 0
  /\ queue[1] \notin published
  /\ lastSubmit.url = queue[2]
  /\ lastSubmit.outcome = "NewlySubmitted"
  /\ requests[queue[2]] = 1

\* A source gives a value.
Present(v) == v # Undefined

\* The first of the three sources that gives a value.
Precedence(callSite, flag, variable) ==
  IF Present(callSite) THEN callSite
  ELSE IF Present(flag) THEN flag
  ELSE variable

\* C12: each option is resolved from the call-site value, else the flag,
\* else the environment variable, a source being used only when the ones
\* before it give nothing: the three credential options, the URL list
\* (call-site list, else the flag's list), and rpmRetry, where a flag that
\* is present, "false" included, decides whatever the variable says.
C12_OptionPrecedence ==
  [][ (pc = "ResolveSite" /\ pc' = "OptionsResolved") =>
        /\ options'.client_email =
             Precedence(options.client_email, args.client_email, env.GIS_CLIENT_EMAIL)
        /\ options'.private_key =
             Precedence(options.private_key, args.private_key, env.GIS_PRIVATE_KEY)
        /\ options'.path = Precedence(options.path, args.path, env.GIS_PATH)
        /\ options.urls.set => options'.urls = options.urls
        /\ (~options.urls.set /\ args.urls.set) =>
             options'.urls.set /\ options'.urls.list = << 1, 2 >>
        /\ rpmRetry' =
             IF options.quota.set THEN options.quota.rpmRetry = "true"
             ELSE Precedence(args.rpm_retry, env.GIS_QUOTA_RPM_RETRY, Undefined) = "true"
    ]_vars

\* The cache file holds text that does not parse.
malformed == file.exists /\ ~WellFormed(file.text)

\* C13: a run that finds no cache file goes on to the status checks with an
\* empty mapping; a run fails at the load only when the file does not
\* parse (with no file, or one that parses, the load of a URL list never
\* ends the run); and a run that finds a file that does not parse ends
\* there, whatever the enumeration gave: it
\* issues no status check, leaves the file as it is, sends no
\* publish-metadata request and no indexing request.
C13_CacheLoad ==
  /\ (pc \in { "CheckStatuses", "PersistCache", "SelectEligible", "Submit", "Done" }
        /\ ~cacheExisted) => loaded = << >>
  /\ (pc = "CheckStatuses" /\ ~cacheExisted /\ ~dispatched /\ batchIndex = 0)
       => pages = << >> /\ ~file.exists
  /\ (pc = "Fatal" /\ cacheExisted) => malformed
  /\ (pc = "EnumerateUrls" /\ ~malformed) =>
       ~ENABLED (EnumerateCustomUrls /\ pc' = "Fatal")
  /\ (pc = "EnumerateUrls" /\ malformed) =>
       ~ENABLED ((EnumerateCustomUrls \/ EnumerateFromSitemaps)
                  /\ pc' = "CheckStatuses")
  /\ malformed =>
       /\ pc \in { "Done", "Fatal", "ResolveSite", "EnumerateUrls" }
       /\ pc # "Done" =>
            /\ writes = 0
            /\ started = {}
            /\ ~queried
            /\ \A u \in URLS : checks[u] = 0 /\ requests[u] = 0

\* C13 witness: the second run found the file the first run wrote damaged
\* and has ended at the load, the file still damaged.
C13_Witness ==
  /\ run = 2
  /\ pc = "Fatal"
  /\ cacheExisted
  /\ malformed
  /\ Len(urls) > 0

\* C14: the cache file never holds two entries for one URL; and when a run
\* saves the cache, every URL that had an entry in the file still has one,
\* whose lastCheckedAt is not earlier than before: the same when the run
\* did not check the URL, a time of this run when it did.
C14_OneEntryMonotone ==
  /\ [](file.exists => Distinct([k \in 1..Len(file.text) |-> file.text[k][1]]))
  /\ [][ file' # file =>
           \A j \in 1..Len(file.text) :
             \E k \in 1..Len(file'.text) :
               /\ file'.text[k][1] = file.text[j][1]
               /\ ~Earlier(file'.text[k][4], DateOf(file.text[j][4]))
               /\ checks[file.text[j][1]] = 0 => file'.text[k] = file.text[j]
               /\ checks[file.text[j][1]] > 0 =>
                    /\ runStart <= DateOf(file'.text[k][4])
                    /\ DateOf(file'.text[k][4]) <= now
     ]_vars

\* C14 witness: the second run has saved a cache in which one URL, checked
\* again, has a later lastCheckedAt than in the cache loaded, and another,
\* not checked, has the one it had.
C14_Witness ==
  /\ run = 2
  /\ pc = "SelectEligible"
  /\ \E u, v \in Range(Keys(loaded)) :
       /\ checks[u] > 0
       /\ DateOf(Get(JSON_parse(file.text), u).lastCheckedAt)
            > DateOf(Get(loaded, u).lastCheckedAt)
       /\ checks[v] = 0
       /\ Get(JSON_parse(file.text), v) = Get(loaded, v)

\* C15: no two tasks in flight at the same time are for the same URL, so
\* no two of them write the same cache key; a run checks the status of a
\* URL at most once; and the status a URL's entry holds once the checks are
\* over is the one its check returned, whatever the order in which the
\* calls returned.
C15_DisjointKeys ==
  /\ \A i, j \in inflight : urls[i] = urls[j] => i = j
  /\ \A u \in URLS : checks[u] <= 1
  /\ pc \in { "PersistCache", "SelectEligible", "Submit", "Done" } =>
       \A u \in Range(urls) :
         checks[u] > 0 =>
           /\ checks[u] = 1
           /\ Get(pages, u).indexingStatus = returned[u]

\* The number of times u occurs in the sequence s.
Count(s, u) == Cardinality({ i \in 1..Len(s) : s[i] = u })

\* C17: when the status checks are over, each enumerated URL is in the
\* bucket of the indexingStatus of its cache entry, once, and in no other
\* bucket; a bucket holds enumerated URLs only; and the sizes of the
\* buckets add up to the number of enumerated URLs.
C17_BucketsMatchCache ==
  pc \in { "PersistCache", "SelectEligible", "Submit", "Done" } =>
    /\ \A u \in Range(urls), st \in IndexingStatus :
         Count(pagesPerIndexingStatus[st], u) =
           IF st = Get(pages, u).indexingStatus THEN 1 ELSE 0
    /\ \A st \in IndexingStatus :
         Range(pagesPerIndexingStatus[st]) \subseteq Range(urls)
    /\ Cardinality({ << st, k >> \in IndexingStatus \X (1..MaxUrls) :
                       k <= Len(pagesPerIndexingStatus[st]) })
         = Cardinality(Range(urls))

\* The IndexableSet of the indexable-and-age policy, as the specification
\* states it.
IndexableSetWithRateLimited ==
  { "DiscoveredCurrentlyNotIndexed", "CrawledCurrentlyNotIndexed",
    "URLIsUnknownToGoogle", "Forbidden", "Error", "RateLimited" }

\* C18: in the pipeline of part_001, when a chunk's tasks start, a URL that
\* has a cache entry is checked again iff the entry's status is in the
\* IndexableSet (RateLimited included) and its lastCheckedAt is strictly
\* earlier than the clock minus 14 days; within a run a URL loaded with a
\* status outside the IndexableSet is not checked and keeps its entry; and
\* from one saved cache to the next such an entry stays as it is.
C18_IndexableAndAge ==
  /\ [][ (pc = "CheckStatuses" /\ ~dispatched /\ dispatched') =>
           \A i \in started' \ started :
             Has(pages, urls[i]) =>
               LET e == Get(pages, urls[i])
               IN  (i \in inflight') <=>
                     /\ e.status \in IndexableSetWithRateLimited
                     /\ Earlier(e.lastCheckedAt, now - FourteenDays)
     ]_vars
  /\ [](\A k \in 1..Len(loaded) :
          loaded[k].page.status \notin IndexableSetWithRateLimited =>
            /\ checks[loaded[k].url] = 0
            /\ k <= Len(pages) /\ pages[k] = loaded[k])
  /\ [][ file' # file =>
           \A j \in 1..Len(file.text) :
             file.text[j][2] \notin IndexableSetWithRateLimited =>
               j <= Len(file'.text) /\ file'.text[j] = file.text[j]
     ]_vars

\* C18 witness: the second run of part_001 is Done more than 14 days after
\* the first; it enumerated a URL loaded as SubmittedAndIndexed and did not
\* check it, and a URL loaded as RateLimited and checked it.
C18_Witness ==
  /\ run = 2
  /\ pc = "Done"
  /\ \E u, v \in Range(urls) :
       /\ Has(loaded, u)
       /\ Get(loaded, u).status = "SubmittedAndIndexed"
       /\ now - DateOf(Get(loaded, u).lastCheckedAt) > FourteenDays
       /\ checks[u] = 0
       /\ Get(pages, u) = Get(loaded, u)
       /\ Has(loaded, v)
       /\ Get(loaded, v).status = "RateLimited"
       /\ checks[v] = 1

\* C19: every URL a run has sent a publish-metadata request or an indexing
\* request for is in the URL list of the run; a URL the cache loaded holds
\* as Pending and the list does not name is not queried.
C19_SubmittedAreEnumerated ==
  /\ \A k \in 1..Len(queue) :
       (k < qi \/ (k = qi /\ waits > 0)) => queue[k] \in Range(urls)
  /\ \A u \in URLS : requests[u] > 0 => u \in Range(urls)
  /\ lastSubmit.outcome # "none" => lastSubmit.url \in Range(urls)
  /\ \A k \in 1..Len(loaded) :
       (loaded[k].page.status = "Pending" /\ loaded[k].url \notin Range(urls)) =>
         /\ requests[loaded[k].url] = 0
         /\ lastSubmit.url # loaded[k].url

\* The failure-or-age policy at the instant t, as the specification states
\* it.
Stale(e, t) == e.status = "Failed" \/ Earlier(e.lastCheckedAt, t - FourteenDays)

\* C20: a status check is issued only for an enumerated URL that has no
\* entry or whose entry shouldRecheck judges stale at that moment, and only
\* the return of a check changes the cache in memory, at the key of its
\* URL; the file saved is the cache in memory.  So once the run has saved
\* the cache, every entry loaded is still there; an entry of a URL that was
\* not enumerated, or is fresh and not Failed, is saved as it was loaded
\* and no check was issued for it; and a saved entry that is new or differs
\* from the one loaded is of an enumerated URL that had no entry or a stale
\* one.
C20_CacheFrame ==
  /\ [][ (pc = "CheckStatuses" /\ ~dispatched /\ dispatched') =>
           \A i \in inflight' :
             ~Has(pages, urls[i]) \/ Stale(Get(pages, urls[i]), now) ]_vars
  /\ [][ (pages' # pages /\ run' = run /\ pc # "EnumerateUrls") =>
           \E i \in inflight :
             /\ inflight' = inflight \ {i}
             /\ \A u \in URLS \ { urls[i] } :
                  /\ Has(pages', u) <=> Has(pages, u)
                  /\ Has(pages, u) => Get(pages', u) = Get(pages, u) ]_vars
  /\ [][ file' # file => JSON_parse(file'.text) = pages ]_vars
  /\ [](\A u \in URLS : checks[u] > 0 => u \in Range(urls))
  /\ [](pc \in { "SelectEligible", "Submit", "Done" } =>
          LET saved == JSON_parse(file.text)
          IN  \A u \in URLS :
                /\ Has(loaded, u) => Has(saved, u)
                /\ (Has(loaded, u)
                     /\ (u \notin Range(urls) \/ ~Stale(Get(loaded, u), now)))
                   => /\ Get(saved, u) = Get(loaded, u)
                      /\ checks[u] = 0
                /\ (Has(saved, u)
                     /\ (~Has(loaded, u) \/ Get(saved, u) # Get(loaded, u)))
                   => /\ u \in Range(urls)
                      /\ checks[u] > 0
                      /\ ~Has(loaded, u) \/ Stale(Get(loaded, u), now))

\* C20 witness: the second run has saved the cache; a URL it did not
\* enumerate has the entry it had, Pending, in the cache loaded, and an
\* enumerated URL, loaded as Failed, has a different entry.
C20_Witness ==
  /\ run = 2
  /\ pc = "SelectEligible"
  /\ \E u, v \in URLS :
       /\ Has(loaded, u)
       /\ u \notin Range(urls)
       /\ Get(loaded, u).status = "Pending"
       /\ Get(JSON_parse(file.text), u) = Get(loaded, u)
       /\ v \in Range(urls)
       /\ Has(loaded, v)
       /\ Get(loaded, v).status = "Failed"
       /\ Get(JSON_parse(file.text), v) # Get(loaded, v)

====
